---- MODULE Spec2Model ----
(***************************************************************************)
(* A model of colorsort/analyzed_image.py: the AnalyzedImage queries, the  *)
(* static method AnalyzedImage.colorsort, the hue-distribution extraction  *)
(* get_dominant_colors_hue_dist and get_remapped_image.                    *)
(*                                                                         *)
(* Python lists are TLA+ sequences (index 0 of the code is index 1 here).  *)
(* Every AnalyzedImage object carries an `id`, its object identity.        *)
(***************************************************************************)
EXTENDS Integers, Sequences, FiniteSets

VARIABLES
    \* ---- AnalyzedImage.colorsort ----
    image_reps,     \* the argument image_reps of the first call
    anchor_image,   \* the argument anchor_image of the first call
    pc,             \* "start" | "sorted" | "resorted"
    sorted_color,   \* the local `color` after color.sort (line 293)
    combined,       \* first returned list
    color,          \* second returned list (the rotated deque)
    bw,             \* third returned list
    printed,        \* what print() has written
    raised,         \* the exception that left colorsort, or "none"
    color2,         \* second returned list of the second call
    raised2,        \* the exception that left the second call
    \* ---- get_dominant_colors_hue_dist ----
    hue_dist,       \* what compute_hue_dist returned, in iteration order
    n_colors,       \* the argument n_colors
    hpc,            \* "start" | "done"
    ranked,         \* the local hue_dist after the sorted() of line 94
    emitted,        \* the local dominant_colors_hsv after the loop
    hraised,        \* the exception that left the method, or "none"
    \* ---- get_remapped_image ----
    self_img,       \* the AnalyzedImage the method is called on
    other,          \* the argument other (NoneImage when absent)
    rpc,            \* "start" | "done"
    remapped,       \* the returned image: <<>> or <<[height, width]>>
    rraised         \* the exception that left the method, or "none"

sortVars  == <<image_reps, anchor_image, pc, sorted_color, combined, color, bw,
               printed, raised, color2, raised2>>
hueVars   == <<hue_dist, n_colors, hpc, ranked, emitted, hraised>>
remapVars == <<self_img, other, rpc, remapped, rraised>>
vars      == <<sortVars, hueVars, remapVars>>

\* A falsy anchor_image: Python's None or the empty string.
NoneValue == "None"

\* Python's None where an AnalyzedImage is expected.
NoneImage == [algorithm |-> "None", height |-> 0, width |-> 0, model |-> FALSE,
              predicted |-> 0]

(***************************************************************************)
(* Bounds of the model.                                                    *)
(***************************************************************************)
MaxLen     == 3     \* longest image_reps list
MaxBuckets == 3     \* most hue buckets in a hue distribution
MaxDim     == 3     \* largest image height and width

\* File names of the analysed images, and the anchors a caller passes: none,
\* or a name that some, all or none of the images of a list carry.
Names   == {"a", "b"}
Anchors == {NoneValue, "a"}

\* Dominant HSV colours the analysed images are drawn from.  Hue 200 has
\* sort metric 290 and hue 300 has sort metric 30 (the +90 shift wraps);
\* saturation 0 makes an image black and white.
Hues == {200, 300}
Sats == {0, 50}
Vals == {1, 2}
HSVs == {<<h, s, v>> : h \in Hues, s \in Sats, v \in Vals}


(***************************************************************************)
(* AnalyzedImage queries.  An image is a record                            *)
(*   [id, name, hsv]   with hsv = <<hue, saturation, value>> of its most   *)
(* dominant colour (get_dominant_color(hsv=True)) and name its             *)
(* image_path.name (image_path is a pathlib.Path).                         *)
(***************************************************************************)
\* get_dominant_color(hsv=True): self.dominant_colors_hsv[0]
get_dominant_color_hsv(img) == img.hsv

\* faulty variant of is_bw: tests the value component, not the saturation
is_bw_value(img) == get_dominant_color_hsv(img)[3] = 0

\* is_bw: the saturation of the most dominant colour is 0
is_bw(img) == get_dominant_color_hsv(img)[2] = 0

\* faulty variant of get_sort_metric: the hue without the shift
get_sort_metric_raw(img) == get_dominant_color_hsv(img)[1]

\* get_sort_metric: (dom_hue + 90) % 360
get_sort_metric(img) == (get_dominant_color_hsv(img)[1] + 90) % 360

\* key of color.sort: the tuple (get_sort_metric(), value)
color_key(img) == <<get_sort_metric(img), get_dominant_color_hsv(img)[3]>>

\* key of bw.sort: the value (an integer key is written as a 1-tuple)
bw_key(img) == <<get_dominant_color_hsv(img)[3]>>

\* Python's < on two keys: lexicographic on tuples
RECURSIVE key_less(_, _)
key_less(a, b) ==
    IF a = <<>> THEN b # <<>>
    ELSE IF b = <<>> THEN FALSE
    ELSE IF Head(a) = Head(b) THEN key_less(Tail(a), Tail(b))
    ELSE Head(a) < Head(b)

(***************************************************************************)
(* list.sort(key=...) / sorted(..., key=..., reverse=...): a stable sort   *)
(* of items by the parallel list keys (Python computes every key first).   *)
(* Each item is placed behind every item already placed that it does not   *)
(* strictly precede, which is the one result a stable sort can give; under *)
(* reverse=True "precedes" is "has the larger key" and equal keys still    *)
(* keep their original order.                                              *)
(***************************************************************************)
list_sort(items, keys, reverse) ==
    LET Before(kx, ky) == IF reverse THEN key_less(ky, kx) ELSE key_less(kx, ky)
        RECURSIVE Insert(_, _)
        Insert(t, x) ==
            IF t = <<>> THEN <<x>>
            ELSE IF Before(x[1], Head(t)[1]) THEN <<x>> \o t
            ELSE <<Head(t)>> \o Insert(Tail(t), x)
        RECURSIVE SortFrom(_, _)
        SortFrom(done, i) ==
            IF i > Len(items) THEN done
            ELSE SortFrom(Insert(done, <<keys[i], items[i]>>), i + 1)
        decorated == SortFrom(<<>>, 1)
    IN  [i \in 1..Len(items) |-> decorated[i][2]]

\* lines 288-293: color.sort(key=lambda elem: (...))
sort_color(col) == list_sort(col, [i \in 1..Len(col) |-> color_key(col[i])], FALSE)

\* line 296: bw.sort(key=lambda elem: ...)
sort_bw(bws) == list_sort(bws, [i \in 1..Len(bws) |-> bw_key(bws[i])], FALSE)

\* lines 279-285: the partition loop
partition_color(reps) == SelectSeq(reps, LAMBDA img : ~is_bw(img))

partition_bw(reps) == SelectSeq(reps, is_bw)

(***************************************************************************)
(* lines 298-305: the anchor scan.  starting_index is the 0-based index of *)
(* the code; color[starting_index] past the end raises IndexError.         *)
(***************************************************************************)
\* faulty variant of the scan: stops at the last image of that name
scan_anchor_last(col, anchor, starting_index) ==
    IF \E i \in 1..Len(col) : col[i].name = anchor
    THEN [exc |-> "none",
          index |-> (CHOOSE i \in 1..Len(col) :
                        /\ col[i].name = anchor
                        /\ \A j \in (i+1)..Len(col) : col[j].name # anchor) - 1]
    ELSE [exc |-> "IndexError", index |-> Len(col)]

RECURSIVE scan_anchor(_, _, _)
scan_anchor(col, anchor, starting_index) ==
    IF starting_index >= Len(col)
        THEN [exc |-> "IndexError", index |-> starting_index]
    ELSE IF col[starting_index + 1].name = anchor
        THEN [exc |-> "none", index |-> starting_index]
    ELSE scan_anchor(col, anchor, starting_index + 1)

\* faulty variant of the try/except: the IndexError is not caught
except_uncaught(scan, anchor) ==
    [raised |-> scan.exc, printed |-> <<>>, starting_index |-> scan.index]

\* the try/except around the scan: IndexError is caught, reported, index reset
try_scan(scan, anchor) ==
    IF scan.exc = "IndexError"
    THEN [raised |-> "none",
          printed |-> << <<"Starting image", anchor, "not found!">> >>,
          starting_index |-> 0]
    ELSE [raised |-> "none", printed |-> <<>>, starting_index |-> scan.index]

\* faulty variant of the rotation: appends the head without popping it
RECURSIVE rotate_dup(_, _)
rotate_dup(dq, n) == IF n = 0 THEN dq ELSE rotate_dup(Append(dq, Head(dq)), n - 1)

\* faulty variant of the rotation: appendleft(pop()), a rotation to the right
RECURSIVE rotate_right(_, _)
rotate_right(dq, n) ==
    IF n = 0 THEN dq
    ELSE rotate_right(<<dq[Len(dq)]>> \o SubSeq(dq, 1, Len(dq) - 1), n - 1)

\* lines 307-309: deque rotation, one popleft/append per step
RECURSIVE rotate(_, _)
rotate(dq, n) == IF n = 0 THEN dq ELSE rotate(Append(Tail(dq), Head(dq)), n - 1)

(***************************************************************************)
(* AnalyzedImage.colorsort as a whole.  anchor = NoneValue is a falsy      *)
(* anchor_image (None or "").                                              *)
(***************************************************************************)
colorsort(reps, anchor) ==
    LET col0   == partition_color(reps)
        bw0    == partition_bw(reps)
        col1   == sort_color(col0)
        bw1    == sort_bw(bw0)
        t      == IF anchor # NoneValue
                  THEN try_scan(scan_anchor(col1, anchor, 0), anchor)
                  ELSE [raised |-> "none", printed |-> <<>>, starting_index |-> 0]
    IN  IF t.raised # "none"
        THEN [raised |-> t.raised, printed |-> t.printed, sorted_color |-> col1,
              combined |-> <<>>, color |-> <<>>, bw |-> <<>>]
        ELSE LET col2 == rotate(col1, t.starting_index)
             IN  [raised |-> "none", printed |-> t.printed, sorted_color |-> col1,
                  combined |-> col2 \o bw1, color |-> col2, bw |-> bw1]

\* The lists a caller can pass: at most MaxLen analysed images, each a
\* distinct object (id) with any name and any dominant colour.
Attrs == [name : Names, hsv : HSVs]

image_list(n, f) == [i \in 1..n |-> [id |-> i, name |-> f[i].name, hsv |-> f[i].hsv]]

SortInit ==
    /\ \E n \in 0..MaxLen : \E f \in [1..n -> Attrs] : image_reps = image_list(n, f)
    /\ anchor_image \in Anchors
    /\ pc = "start"
    /\ sorted_color = <<>>
    /\ combined = <<>>
    /\ color = <<>>
    /\ bw = <<>>
    /\ printed = <<>>
    /\ raised = "none"
    /\ color2 = <<>>
    /\ raised2 = "none"

SortIdle ==
    /\ image_reps = <<>>
    /\ anchor_image = NoneValue
    /\ pc = "idle"
    /\ sorted_color = <<>>
    /\ combined = <<>>
    /\ color = <<>>
    /\ bw = <<>>
    /\ printed = <<>>
    /\ raised = "none"
    /\ color2 = <<>>
    /\ raised2 = "none"

\* colorsort(image_reps, anchor_image)
Colorsort ==
    /\ pc = "start"
    /\ LET r == colorsort(image_reps, anchor_image)
       IN  /\ sorted_color' = r.sorted_color
           /\ combined' = r.combined
           /\ color' = r.color
           /\ bw' = r.bw
           /\ printed' = printed \o r.printed
           /\ raised' = r.raised
    /\ pc' = "sorted"
    /\ UNCHANGED <<image_reps, anchor_image, color2, raised2, hueVars, remapVars>>

\* colorsort(color, color[0].image_path.name): the returned colour sequence
\* sorted again, anchored at its own first element
Resort ==
    /\ pc = "sorted"
    /\ raised = "none"
    /\ color # <<>>
    /\ LET r == colorsort(color, color[1].name)
       IN  /\ color2' = r.color
           /\ raised2' = r.raised
           /\ printed' = printed \o r.printed
    /\ pc' = "resorted"
    /\ UNCHANGED <<image_reps, anchor_image, sorted_color, combined, color, bw,
                   raised, hueVars, remapVars>>

(***************************************************************************)
(* get_dominant_colors_hue_dist.  The hue distribution is the sequence of  *)
(* the dict's items in iteration order: pairs <<hue, hsv_list>>, hsv_list  *)
(* the list of the <<h, s, v>> pixels of that hue.                         *)
(***************************************************************************)
\* key=lambda item: len(item[1])
hue_keys(hd) == [i \in 1..Len(hd) |-> <<Len(hd[i][2])>>]

\* faulty variant of the ranking: reverse=True left out
rank_hue_dist_ascending(hd) == list_sort(hd, hue_keys(hd), FALSE)

\* lines 94-96: sorted(hue_dist.items(), key=..., reverse=True)
rank_hue_dist(hd) == list_sort(hd, hue_keys(hd), TRUE)

\* twice np.median of a non-empty list of integers (the median itself is a
\* half-integer when the list has even length)
median_twice(xs) ==
    LET srt == list_sort(xs, [i \in 1..Len(xs) |-> <<xs[i]>>], FALSE)
        n   == Len(srt)
    IN  IF n % 2 = 1 THEN 2 * srt[(n + 1) \div 2]
        ELSE srt[n \div 2] + srt[n \div 2 + 1]

\* util.round_to_int of t/2: the nearest integer, a half going to the even one
round_to_int_twice(t) ==
    IF t % 2 = 0 THEN t \div 2
    ELSE IF ((t - 1) \div 2) % 2 = 0 THEN (t - 1) \div 2 ELSE (t + 1) \div 2

channel(hsv_list, c) == [k \in 1..Len(hsv_list) |-> hsv_list[k][c]]

\* lines 103-104: util.round_to_int(np.median([hsv[c] for hsv in ...]))
avg_channel(hsv_list, c) == round_to_int_twice(median_twice(channel(hsv_list, c)))

\* lines 100-110: one iteration of the loop, for the ranked item
emit_color(item) ==
    IF Len(item[2]) > 0
    THEN <<item[1], avg_channel(item[2], 2), avg_channel(item[2], 3)>>
    ELSE <<item[1], 0, 0>>

\* lines 98-110: the loop over range(n_colors); hue_dist[i] past the end
\* raises IndexError, which nothing in the method catches
RECURSIVE hue_loop(_, _, _, _)
hue_loop(rk, n, i, acc) ==
    IF i >= n THEN [raised |-> "none", emitted |-> acc]
    ELSE IF i >= Len(rk) THEN [raised |-> "IndexError", emitted |-> acc]
    ELSE hue_loop(rk, n, i + 1, Append(acc, emit_color(rk[i + 1])))

\* The method up to line 110.  Lines 112-113 hand the emitted list to
\* util.normalize_8bit_hsv and util.hsv_to_rgb; `emitted` is that list.
get_dominant_colors_hue_dist(hd, n) ==
    LET rk == rank_hue_dist(hd)
        r  == hue_loop(rk, n, 0, <<>>)
    IN  [ranked |-> rk, raised |-> r.raised,
         emitted |-> IF r.raised = "none" THEN r.emitted ELSE <<>>]

\* Hue distributions compute_hue_dist can hand over: at least one bucket,
\* distinct hue keys, each with a list of the pixels of that hue (possibly
\* none).
BucketHues == {10, 20, 30, 40}

SVLists == { <<>>,
             << <<4, 1>> >>,
             << <<7, 7>> >>,
             << <<2, 3>>, <<1, 4>> >>,
             << <<5, 1>>, <<1, 1>>, <<2, 9>> >> }

pixels_of(hue, svs) == [k \in 1..Len(svs) |-> <<hue, svs[k][1], svs[k][2]>>]

hue_dist_of(n, hs, cs) == [i \in 1..n |-> <<hs[i], pixels_of(hs[i], cs[i])>>]

HueInit ==
    /\ \E n \in 1..MaxBuckets :
          \E hs \in [1..n -> BucketHues] :
              /\ \A i, j \in 1..n : i # j => hs[i] # hs[j]
              /\ \E cs \in [1..n -> SVLists] : hue_dist = hue_dist_of(n, hs, cs)
    /\ n_colors \in 1..(MaxBuckets + 1)
    /\ hpc = "start"
    /\ ranked = <<>>
    /\ emitted = <<>>
    /\ hraised = "none"

HueIdle ==
    /\ hue_dist = <<>>
    /\ n_colors = 1
    /\ hpc = "idle"
    /\ ranked = <<>>
    /\ emitted = <<>>
    /\ hraised = "none"

\* self.get_dominant_colors_hue_dist(n_colors)
HueDist ==
    /\ hpc = "start"
    /\ LET r == get_dominant_colors_hue_dist(hue_dist, n_colors)
       IN  /\ ranked' = r.ranked
           /\ emitted' = r.emitted
           /\ hraised' = r.raised
    /\ hpc' = "done"
    /\ UNCHANGED <<hue_dist, n_colors, sortVars, remapVars>>

(***************************************************************************)
(* get_remapped_image.  An analysed image here is a record                 *)
(*   [algorithm, height, width, model, predicted]: model is TRUE when      *)
(* __init__ set self.model (it went through get_dominant_colors_kmeans),   *)
(* predicted the number of per-pixel labels in self.predicted (0 when the  *)
(* attribute was never set).  The returned image is <<>> when the call     *)
(* raised, and else the one-element sequence of its [height, width].       *)
(***************************************************************************)
Algorithms == {"HUE_DIST", "KMEANS"}

\* faulty variant of __init__: the clustering model is fitted for either
\* algorithm
init_always_fits(algorithm, height, width) ==
    [algorithm |-> algorithm, height |-> height, width |-> width,
     model |-> TRUE, predicted |-> height * width]

\* lines 72-82, 125: only the KMEANS branch assigns self.model, self.predicted
init_image(algorithm, height, width) ==
    [algorithm |-> algorithm, height |-> height, width |-> width,
     model |-> algorithm = "KMEANS",
     predicted |-> IF algorithm = "KMEANS" THEN height * width ELSE 0]

\* lines 207-215
get_remapped_image(slf, oth) ==
    IF ~slf.model
    THEN [raised |-> "AttributeError", image |-> <<>>]            \* line 207
    ELSE LET other_predicted ==
                 IF oth = NoneImage THEN slf.predicted            \* line 209
                 ELSE oth.height * oth.width                      \* lines 211-212
             \* line 214: one row of three channels per predicted label
             rows == other_predicted
         IN  \* line 215: reshape((self.height, self.width, 3))
             IF rows * 3 # slf.height * slf.width * 3
             THEN [raised |-> "ValueError", image |-> <<>>]
             ELSE [raised |-> "none",
                   image |-> <<[height |-> slf.height, width |-> slf.width]>>]

RemapInit ==
    /\ \E a \in Algorithms : \E h, w \in 1..MaxDim : self_img = init_image(a, h, w)
    /\ \/ other = NoneImage
       \/ \E a \in Algorithms : \E h, w \in 1..MaxDim : other = init_image(a, h, w)
    /\ rpc = "start"
    /\ remapped = <<>>
    /\ rraised = "none"

RemapIdle ==
    /\ self_img = NoneImage
    /\ other = NoneImage
    /\ rpc = "idle"
    /\ remapped = <<>>
    /\ rraised = "none"

\* self_img.get_remapped_image(other)
Remap ==
    /\ rpc = "start"
    /\ LET r == get_remapped_image(self_img, other)
       IN  /\ remapped' = r.image
           /\ rraised' = r.raised
    /\ rpc' = "done"
    /\ UNCHANGED <<self_img, other, sortVars, hueVars>>

(***************************************************************************)
(* Specifications: one per part of the program.                            *)
(***************************************************************************)
Init == SortInit /\ HueIdle /\ RemapIdle

Next == Colorsort \/ Resort

Spec == Init /\ [][Next]_vars

HueDistInit == SortIdle /\ HueInit /\ RemapIdle

HueDistNext == HueDist

SpecHueDist == HueDistInit /\ [][HueDistNext]_vars

RemapSpecInit == SortIdle /\ HueIdle /\ RemapInit

RemapNext == Remap

SpecRemap == RemapSpecInit /\ [][RemapNext]_vars

(***************************************************************************)
(* Properties of colorsort (checked under Spec).                           *)
(***************************************************************************)
Range(s) == {s[i] : i \in 1..Len(s)}

Count(s, x) == Cardinality({i \in 1..Len(s) : s[i] = x})

SameMultiset(s, t) == \A x \in Range(s) \cup Range(t) : Count(s, x) = Count(t, x)

RotatedLeftBy(s, k) == SubSeq(s, k + 1, Len(s)) \o SubSeq(s, 1, k)

\* the position of image x in the list s (images are distinct objects)
PosIn(s, x) == CHOOSE i \in 1..Len(s) : s[i] = x

Returned == pc # "start" /\ raised = "none"

AnchorMatches(s) == {i \in 1..Len(s) : s[i].name = anchor_image}

FirstMatch(s) == CHOOSE i \in AnchorMatches(s) : \A j \in AnchorMatches(s) : i <= j

\* C1: whatever the image list and the anchor (absent, matching or not),
\* colorsort returns, and its colour sequence is a cyclic rotation of the
\* sorted colour sequence: same length, same multiset of images.
C1_RotationIsCyclicPermutation ==
    pc # "start" =>
        /\ raised = "none"
        /\ Len(color) = Len(sorted_color)
        /\ SameMultiset(color, sorted_color)
        /\ \E k \in 0..Len(sorted_color) : color = RotatedLeftBy(sorted_color, k)

C1_Witness ==
    /\ Returned
    /\ Len(color) = 3
    /\ color # sorted_color
    /\ anchor_image # NoneValue

\* C2: with an anchor that names an image of the sorted colour sequence, first
\* at (0-based) index k, the returned colour sequence is the sorted one rotated
\* left by exactly k: the anchor first, its followers in order, then the k
\* images that preceded it in their order.
C2_AnchorRotatesLeftByK ==
    (pc # "start" /\ anchor_image # NoneValue /\ AnchorMatches(sorted_color) # {}) =>
        LET k == FirstMatch(sorted_color) - 1
        IN  /\ raised = "none"
            /\ color = RotatedLeftBy(sorted_color, k)
            /\ color[1] = sorted_color[k + 1]
            /\ \A i \in 1..k : color[Len(color) - k + i] = sorted_color[i]

C2_Witness ==
    /\ Returned
    /\ anchor_image # NoneValue
    /\ Len(sorted_color) = 3
    /\ AnchorMatches(sorted_color) = {2, 3}
    /\ color[1] = sorted_color[2]

\* the images of image_reps that are not black and white
ColorGroup == {i \in 1..Len(image_reps) : image_reps[i].hsv[2] # 0}

SortKey(img) == <<(img.hsv[1] + 90) % 360, img.hsv[3]>>

DistinctKeys(s) == \A i, j \in 1..Len(s) : i # j => SortKey(s[i]) # SortKey(s[j])

\* C4 as claimed: sorting the returned colour sequence again, anchored at its
\* own first element, returns the identical sequence, for all inputs.
C4_Idempotent_Original ==
    pc = "resorted" => (raised2 = "none" /\ color2 = color)

\* C4 as amended: sorting the returned colour sequence again, anchored at its
\* own first element, returns the identical sequence provided no two colour
\* images share the same sort key ((hue + 90) mod 360, value).
C4_IdempotentWithDistinctKeys ==
    (pc = "resorted" /\ DistinctKeys(color)) => (raised2 = "none" /\ color2 = color)

C4_Witness ==
    /\ pc = "resorted"
    /\ DistinctKeys(color)
    /\ Len(color) = 3
    /\ color # sorted_color
    /\ color2 = color
    /\ \E i, j \in 1..3 : i # j /\ color[i].name = color[j].name

\* C5: the third returned sequence holds exactly the input images whose
\* dominant saturation is 0, the second exactly the others, and the first is
\* the second followed by the third (so it is a permutation of the input with
\* every colour image before every black-and-white one).
C5_PartitionAndConcatenation ==
    pc # "start" =>
        /\ raised = "none"
        /\ Range(bw) = {image_reps[i] : i \in {j \in 1..Len(image_reps) :
                                                  image_reps[j].hsv[2] = 0}}
        /\ Range(color) = {image_reps[i] : i \in ColorGroup}
        /\ Len(color) + Len(bw) = Len(image_reps)
        /\ combined = color \o bw
        /\ SameMultiset(combined, image_reps)

C5_Witness ==
    /\ Returned
    /\ Len(image_reps) = 3
    /\ image_reps[1].hsv[2] = 0
    /\ image_reps[2].hsv[2] # 0
    /\ Len(color) = 2
    /\ Len(bw) = 1

KeyLeq(a, b) == a[1] < b[1] \/ (a[1] = b[1] /\ a[2] <= b[2])

C7_NoCrashBeyondBuckets ==
    (hpc = "done" /\ n_colors > Len(hue_dist)) => hraised # "IndexError"

\* the rank (1 = first) of the bucket at position p of the hue distribution:
\* larger pixel counts first, equal counts in iteration order
RankOf(p) ==
    1 + Cardinality({q \in 1..Len(hue_dist) :
                        \/ Len(hue_dist[q][2]) > Len(hue_dist[p][2])
                        \/ Len(hue_dist[q][2]) = Len(hue_dist[p][2]) /\ q < p})

BucketOfRank(i) == hue_dist[CHOOSE p \in 1..Len(hue_dist) : RankOf(p) = i]

\* the m-th smallest of the channel c values of a pixel list
NthSmallest(pixels, c, m) ==
    LET vals == {pixels[k][c] : k \in 1..Len(pixels)}
        AtMost(v) == Cardinality({k \in 1..Len(pixels) : pixels[k][c] <= v})
    IN  CHOOSE v \in vals : AtMost(v) >= m /\ \A w \in vals : AtMost(w) >= m => v <= w

\* e is the median of channel c, rounded to a nearest integer
IsRoundedMedian(e, pixels, c) ==
    LET n  == Len(pixels)
        lo == NthSmallest(pixels, c, (n + 1) \div 2)
        hi == NthSmallest(pixels, c, n \div 2 + 1)
        d  == 2 * e - (lo + hi)
    IN  d \in {-1, 0, 1}

\* C10: asked for N colours, N not above the number of buckets, the
\* extraction emits exactly N colours in rank order: the i-th has the hue of
\* the bucket with the i-th largest pixel count (equal counts in iteration
\* order), and as saturation and value the rounded medians of that bucket's
\* pixels, or 0 and 0 for a bucket without pixels.
C10_RankOrderAndMedians ==
    (hpc = "done" /\ n_colors <= Len(hue_dist)) =>
        /\ hraised = "none"
        /\ Len(emitted) = n_colors
        /\ \A i \in 1..n_colors :
              LET b == BucketOfRank(i)
              IN  /\ emitted[i][1] = b[1]
                  /\ IF b[2] = <<>>
                     THEN emitted[i][2] = 0 /\ emitted[i][3] = 0
                     ELSE /\ IsRoundedMedian(emitted[i][2], b[2], 2)
                          /\ IsRoundedMedian(emitted[i][3], b[2], 3)

C10_Witness ==
    /\ hpc = "done"
    /\ hraised = "none"
    /\ n_colors = 3
    /\ Len(hue_dist) = 3
    /\ Len(hue_dist[1][2]) = 1
    /\ Len(hue_dist[2][2]) = 3
    /\ Len(hue_dist[3][2]) = 1
    /\ emitted[1] = <<hue_dist[2][1], 2, 1>>
    /\ emitted[2][2] = 4
    /\ emitted[2][1] = hue_dist[1][1]
    /\ emitted[3][1] = hue_dist[3][1]

(***************************************************************************)
(* Properties of get_remapped_image (checked under SpecRemap).             *)
(***************************************************************************)
\* C8: on an image analysed with HUE_DIST, get_remapped_image fails with an
\* error and returns no image, with or without another image supplied.
C8_RemapNeedsKMeans ==
    (rpc = "done" /\ self_img.algorithm = "HUE_DIST") =>
        (rraised # "none" /\ remapped = <<>>)

C8_Witness ==
    /\ rpc = "done"
    /\ self_img.algorithm = "HUE_DIST"
    /\ other # NoneImage
    /\ other.algorithm = "KMEANS"
    /\ other.height = self_img.height
    /\ other.width = self_img.width
    /\ rraised = "AttributeError"

\* C9 as claimed: on a KMEANS image, with another image supplied the returned
\* image has the other image's height and width, whatever the two images'
\* dimensions; without one it has this image's height and width.
C9_RemapDimensions ==
    (rpc = "done" /\ self_img.algorithm = "KMEANS") =>
        /\ rraised = "none"
        /\ remapped = IF other = NoneImage
                      THEN <<[height |-> self_img.height, width |-> self_img.width]>>
                      ELSE <<[height |-> other.height, width |-> other.width]>>

====
